---------------------------- MODULE Spec2Model ----------------------------
(***************************************************************************)
(* A model of the memogarden-utils library:                                *)
(*   - utils/uid.py            UUID namespace prefixes                     *)
(*   - utils/format/textbox.py the bordered box formatter                  *)
(*   - utils/recurrence.py     RRULE expansion (over dateutil.rrule) and   *)
(*                             the recurrence window                       *)
(*   - utils/config/base.py    Settings construction and the TOML loader   *)
(*   - utils/config/profiles.py the resource-profile registry              *)
(*   - utils/hash_chain.py     the entity hash chain                       *)
(*   - utils/isodatetime.py    ISO 8601 timestamps                         *)
(*                                                                         *)
(* The library is a set of independent, synchronous functions.  Each       *)
(* module gets a specification of its own (SpecUid, SpecBox, SpecRecur,    *)
(* SpecSettings, SpecLoader, SpecProfiles, SpecHash, SpecIso, SpecWindow): *)
(* its Init draws the inputs from bounded sets, its actions apply the      *)
(* functions.  The variables of the other modules stay idle.               *)
(*                                                                         *)
(* Text is a sequence of one-character strings, so that startswith,        *)
(* slicing, concatenation and parsing are computed, not assumed.           *)
(***************************************************************************)
EXTENDS Integers, Sequences, FiniteSets, TLC

VARIABLES
    uidBare,      \* uid: the bare UUID the run started from
    uidValue,     \* uid: the value after the prefix operations applied so far
    uidLast,      \* uid: the operation applied last ("none" before the first)
    boxIn,        \* textbox: [title, body_lines, min_width]
    boxOut,       \* textbox: [done, rows]: the rows format_box joined by "\n"
    rrIn,         \* recurrence: [rrule_str, start, end, count]
    rrOut,        \* recurrence: [op, outcome, value]
    environ,      \* config: os.environ, a mapping of the set MEMOGARDEN_* names
    configFile,   \* config: the file at the resolved config path
    tomllib,      \* config: whether a TOML parser could be imported
    settings,     \* config: the attributes of the Settings object
    cfgOut,       \* config: [pc, error, warnings] of the construction
    loadOut,      \* config: [pc, error, config] of a direct load_toml_config call
    regHeap,      \* profiles: the dict objects alive, object id -> mapping
    regHeld,      \* profiles: the ids of the mappings callers got and still hold
    regOut,       \* profiles: [op, error, merged] of the last registry use   
    hashA,        \* hash_chain: the arguments of one compute_entity_hash call
    hashB,        \* hash_chain: the arguments of a second call
    hashOut,      \* hash_chain: [pc, changed, digA, digB], the two digests
    hashChain,    \* hash_chain: [next, entity], the chain built in both ways
    dtIn,         \* isodatetime: the datetime given to to_timestamp
    tsOut,        \* isodatetime: [done, text] of to_timestamp
    winIn,        \* recurrence: [valid_from, valid_until]
    winOut        \* recurrence: [outcome, kind] of is_valid_recurrence_window

vars == <<uidBare, uidValue, uidLast, boxIn, boxOut, rrIn, rrOut,
          environ, configFile, tomllib, settings, cfgOut, loadOut,
          regHeap, regHeld, regOut, hashA, hashB, hashOut, hashChain,
          dtIn, tsOut, winIn, winOut>>

uidVars == <<uidBare, uidValue, uidLast>>
boxVars == <<boxIn, boxOut>>
rrVars  == <<rrIn, rrOut>>
cfgVars == <<environ, configFile, tomllib, settings, cfgOut>>
regVars == <<regHeap, regHeld, regOut>>
hashVars == <<hashA, hashB, hashOut, hashChain>>
isoVars == <<dtIn, tsOut, winIn, winOut>>

-----------------------------------------------------------------------------
(* Text helpers: Python's str operations on sequences of characters.       *)

\* str.startswith(prefix)
StartsWith(s, p) ==
    /\ Len(s) >= Len(p)
    /\ SubSeq(s, 1, Len(p)) = p

\* s[n:]
DropFirst(s, n) == SubSeq(s, n + 1, Len(s))

\* "".join(parts)
RECURSIVE Concat(_)
Concat(parts) ==
    IF parts = <<>> THEN <<>> ELSE Head(parts) \o Concat(Tail(parts))

\* All sequences over S of length 0..n
SeqsUpTo(S, n) == UNION { [1..k -> S] : k \in 0..n }

-----------------------------------------------------------------------------
(* utils/uid.py                                                            *)

UUID_PREFIX_CORE == <<"c", "o", "r", "e", "_">>
UUID_PREFIX_SOIL == <<"s", "o", "i", "l", "_">>

\* A seeded slip: add_soil_prefix that only looks for its own prefix.
add_soil_prefix_own_only(uuid) ==
    IF StartsWith(uuid, UUID_PREFIX_SOIL)
    THEN uuid
    ELSE UUID_PREFIX_SOIL \o uuid

\* A seeded slip: add_core_prefix that only looks for its own prefix.
add_core_prefix_own_only(uuid) ==
    IF StartsWith(uuid, UUID_PREFIX_CORE)
    THEN uuid
    ELSE UUID_PREFIX_CORE \o uuid

add_core_prefix(uuid) ==
    IF StartsWith(uuid, UUID_PREFIX_CORE) \/ StartsWith(uuid, UUID_PREFIX_SOIL)
    THEN uuid
    ELSE UUID_PREFIX_CORE \o uuid

add_soil_prefix(uuid) ==
    IF StartsWith(uuid, UUID_PREFIX_SOIL) \/ StartsWith(uuid, UUID_PREFIX_CORE)
    THEN uuid
    ELSE UUID_PREFIX_SOIL \o uuid

strip_prefix(uuid) ==
    IF StartsWith(uuid, UUID_PREFIX_CORE)
    THEN DropFirst(uuid, Len(UUID_PREFIX_CORE))
    ELSE IF StartsWith(uuid, UUID_PREFIX_SOIL)
    THEN DropFirst(uuid, Len(UUID_PREFIX_SOIL))
    ELSE uuid

has_core_prefix(uuid) == StartsWith(uuid, UUID_PREFIX_CORE)

has_soil_prefix(uuid) == StartsWith(uuid, UUID_PREFIX_SOIL)

has_prefix(uuid) == has_core_prefix(uuid) \/ has_soil_prefix(uuid)

\* The inputs: strings glued from up to MaxChunks pieces.  The pieces are the
\* two prefixes and fragments of them, so that near-prefixes ("core", "ore_"),
\* prefixes in the middle ("acore_") and strings that become a prefix only
\* when glued ("core" + "_") all occur.
MaxChunks == 3

UidChunks ==
    { UUID_PREFIX_CORE, UUID_PREFIX_SOIL,
      <<"c", "o", "r", "e">>, <<"s", "o", "i", "l">>, <<"_">>, <<"a">> }

UidStrings == { Concat(cs) : cs \in SeqsUpTo(UidChunks, MaxChunks) }

\* "bare": starting with neither core_ nor soil_
BareUuids == { u \in UidStrings : ~has_prefix(u) }

UidIdle ==
    /\ uidBare = <<>>
    /\ uidValue = <<>>
    /\ uidLast = "none"

UidInit ==
    /\ uidBare \in BareUuids
    /\ uidValue = uidBare
    /\ uidLast = "none"

AddCorePrefix ==
    /\ uidValue' = add_core_prefix(uidValue)
    /\ uidLast' = "add_core_prefix"
    /\ UNCHANGED <<uidBare, boxVars, rrVars, cfgVars, loadOut,
                 regVars, hashVars, isoVars>>

AddSoilPrefix ==
    /\ uidValue' = add_soil_prefix(uidValue)
    /\ uidLast' = "add_soil_prefix"
    /\ UNCHANGED <<uidBare, boxVars, rrVars, cfgVars, loadOut,
                 regVars, hashVars, isoVars>>

StripPrefix ==
    /\ uidValue' = strip_prefix(uidValue)
    /\ uidLast' = "strip_prefix"
    /\ UNCHANGED <<uidBare, boxVars, rrVars, cfgVars, loadOut,
                 regVars, hashVars, isoVars>>

UidNext ==
    \/ AddCorePrefix
    \/ AddSoilPrefix
    \/ StripPrefix

-----------------------------------------------------------------------------
(* utils/format/textbox.py                                                 *)
(*                                                                         *)
(* A character is a one-element token: an ASCII character is itself, any   *)
(* other character is named by its code point ("U+65E5").                  *)

\* unicodedata.east_asian_width(c), on the characters the model uses:
\* CJK ideographs are W, fullwidth forms F, box-drawing characters A
\* (ambiguous), ASCII Na.
WideChars == { "U+65E5", "U+672C" }
FullwidthChars == { "U+FF21" }
BoxChars == { "U+2554", "U+2550", "U+2557", "U+2551", "U+2560", "U+2563",
              "U+255A", "U+255D" }

east_asian_width(c) ==
    IF c \in WideChars THEN "W"
    ELSE IF c \in FullwidthChars THEN "F"
    ELSE IF c \in BoxChars THEN "A"
    ELSE "Na"

RECURSIVE display_width(_)
display_width(s) ==
    IF s = <<>> THEN 0
    ELSE (IF east_asian_width(Head(s)) \in {"W", "F"} THEN 2 ELSE 1)
         + display_width(Tail(s))

\* c * n: the empty string when n <= 0
Repeat(c, n) == [i \in 1..n |-> c]

Max2(a, b) == IF a >= b THEN a ELSE b

\* max(display_width(line) for line in all_lines), default 0
MaxWidth(lines) ==
    IF lines = <<>> THEN 0
    ELSE CHOOSE m \in { display_width(lines[i]) : i \in 1..Len(lines) } :
            \A i \in 1..Len(lines) : display_width(lines[i]) <= m

\* width = max(min_width, content_width + 4)
box_width(title, body_lines, min_width) ==
    Max2(min_width, MaxWidth(<<title>> \o body_lines) + 4)

\* the inner helper pad(line) of format_box
pad(line, width) ==
    LET needed == width - display_width(line) - 2
    IN  <<"U+2551", " ">> \o line \o Repeat(" ", needed) \o <<" ", "U+2551">>

\* format_box: the rows, in order; the function joins them with "\n"
format_box(title, body_lines, min_width) ==
    LET width   == box_width(title, body_lines, min_width)
        border  == <<"U+2554">> \o Repeat("U+2550", width - 2) \o <<"U+2557">>
        divider == <<"U+2560">> \o Repeat("U+2550", width - 2) \o <<"U+2563">>
        bottom  == <<"U+255A">> \o Repeat("U+2550", width - 2) \o <<"U+255D">>
    IN  <<border, pad(title, width), divider>>
        \o [i \in 1..Len(body_lines) |-> pad(body_lines[i], width)]
        \o <<bottom>>

\* format_box's default for min_width
DefaultMinWidth == 60

\* Inputs of the formatter.
MaxBodyLines == 2

BoxTexts ==
    { <<"T", "e", "s", "t">>,
      <<"a">>,
      <<>>,
      <<"U+65E5", "U+672C">>,
      <<"U+FF21", "b">>,
      <<"a", " ", "l", "o", "n", "g", "e", "r", " ", "l", "i", "n", "e">> }

BoxMinWidths == { 0, 10, DefaultMinWidth }

BoxIdle ==
    /\ boxIn = [title |-> <<>>, body_lines |-> <<>>, min_width |-> 0]
    /\ boxOut = [done |-> FALSE, rows |-> <<>>]

BoxInit ==
    /\ boxIn \in [title : BoxTexts,
                  body_lines : SeqsUpTo(BoxTexts, MaxBodyLines),
                  min_width : BoxMinWidths]
    /\ boxOut = [done |-> FALSE, rows |-> <<>>]

FormatBox ==
    /\ ~boxOut.done
    /\ boxOut' = [done |-> TRUE,
                  rows |-> format_box(boxIn.title, boxIn.body_lines,
                                      boxIn.min_width)]
    /\ UNCHANGED <<boxIn, uidVars, rrVars, cfgVars, loadOut,
                 regVars, hashVars, isoVars>>

-----------------------------------------------------------------------------
(* Python's int() and optional values.                                     *)

\* Optional[T]: None is the empty sequence, a value x is <<x>>.
None == <<>>
Some(x) == <<x>>
IsNone(o) == o = <<>>
Val(o) == o[1]

Digits == { "0", "1", "2", "3", "4", "5", "6", "7", "8", "9" }

DigitVal(c) ==
    CASE c = "0" -> 0 [] c = "1" -> 1 [] c = "2" -> 2 [] c = "3" -> 3
      [] c = "4" -> 4 [] c = "5" -> 5 [] c = "6" -> 6 [] c = "7" -> 7
      [] c = "8" -> 8 [] c = "9" -> 9

AllDigits(s) == \A i \in 1..Len(s) : s[i] \in Digits

\* the value of a string of digits, most significant first
RECURSIVE DigitsVal(_)
DigitsVal(s) ==
    IF s = <<>> THEN 0
    ELSE 10 * DigitsVal(SubSeq(s, 1, Len(s) - 1)) + DigitVal(s[Len(s)])

\* str.strip() of blanks
RECURSIVE Strip(_)
Strip(s) ==
    IF s # <<>> /\ Head(s) = " " THEN Strip(Tail(s))
    ELSE IF s # <<>> /\ s[Len(s)] = " " THEN Strip(SubSeq(s, 1, Len(s) - 1))
    ELSE s

\* int(s): blanks around, an optional sign, then one or more digits; anything
\* else is a ValueError.  (Digit-group underscores are not modelled.)
ParseInt(s) ==
    LET t    == Strip(s)
        sgn  == t # <<>> /\ Head(t) \in {"-", "+"}
        body == IF sgn THEN Tail(t) ELSE t
    IN  IF body # <<>> /\ AllDigits(body)
        THEN [ok |-> TRUE,
              val |-> IF sgn /\ Head(t) = "-" THEN 0 - DigitsVal(body)
                      ELSE DigitsVal(body)]
        ELSE [ok |-> FALSE, val |-> 0]

-----------------------------------------------------------------------------
(* dateutil.rrule, as utils/recurrence.py uses it.                         *)
(*                                                                         *)
(* Time is counted in whole days.  An RRULE string is the sequence of its  *)
(* ";"-separated parts; a part "NAME=VALUE" is <<NAME, VALUE>> and a part  *)
(* without "=" is <<TEXT>>.  FREQ values are names, numeric values are     *)
(* text that int() parses.  The model covers FREQ=DAILY|WEEKLY, INTERVAL   *)
(* and COUNT.                                                              *)

\* days per period of each modelled frequency (dateutil's _freq_map)
FreqDays(f) == IF f = "WEEKLY" THEN 7 ELSE 1
FreqNames == { "DAILY", "WEEKLY" }

\* rrulestr(s, dtstart=dtstart): the rule, or the exception raised.
\* A rule is [dtstart, step, count]; count None is an unbounded rule.
\* Parts are handled left to right, a later one replacing an earlier one.
RECURSIVE ParseParts(_, _)
ParseParts(parts, acc) ==
    IF parts = <<>> THEN acc
    ELSE LET part == Head(parts) IN
         IF Len(part) # 2
         THEN [acc EXCEPT !.error = "ValueError"]      \* name, value = pair.split("=")
         ELSE IF part[1] = "FREQ"
         THEN IF part[2] \in FreqNames
              THEN ParseParts(Tail(parts), [acc EXCEPT !.freq = Some(part[2])])
              ELSE [acc EXCEPT !.error = "ValueError"] \* invalid 'FREQ'
         ELSE IF part[1] = "INTERVAL"
         THEN IF ParseInt(part[2]).ok
              THEN ParseParts(Tail(parts),
                              [acc EXCEPT !.interval = ParseInt(part[2]).val])
              ELSE [acc EXCEPT !.error = "ValueError"] \* invalid 'INTERVAL'
         ELSE IF part[1] = "COUNT"
         THEN IF ParseInt(part[2]).ok
              THEN ParseParts(Tail(parts),
                              [acc EXCEPT !.count = Some(ParseInt(part[2]).val)])
              ELSE [acc EXCEPT !.error = "ValueError"] \* invalid 'COUNT'
         ELSE [acc EXCEPT !.error = "ValueError"]      \* unknown parameter

rrulestr(s, dtstart) ==
    LET acc0 == [error |-> "none", freq |-> None, interval |-> 1, count |-> None]
        acc  == ParseParts(s, acc0)
    IN  IF s = <<>>
        THEN [error |-> "ValueError", dtstart |-> dtstart, step |-> 1,
              count |-> None]                          \* empty string
        ELSE IF acc.error # "none"
        THEN [error |-> acc.error, dtstart |-> dtstart, step |-> 1,
              count |-> None]
        ELSE IF IsNone(acc.freq)
        THEN [error |-> "TypeError", dtstart |-> dtstart, step |-> 1,
              count |-> None]                          \* rrule() without freq
        ELSE [error |-> "none", dtstart |-> dtstart,
              step |-> FreqDays(Val(acc.freq)) * acc.interval,
              count |-> acc.count]

Min2(a, b) == IF a <= b THEN a ELSE b

\* rule[:n]: itertools.islice(rule, n), the first n occurrences
rule_slice(rule, n) ==
    LET m == IF IsNone(rule.count) THEN n ELSE Min2(n, Val(rule.count))
    IN  [k \in 1..m |-> rule.dtstart + (k - 1) * rule.step]

\* how many occurrences of the rule are earlier than `before`
CountBefore(rule, before) ==
    LET all == IF before <= rule.dtstart THEN 0
               ELSE (before - 1 - rule.dtstart) \div rule.step + 1
    IN  IF IsNone(rule.count) THEN all ELSE Min2(all, Val(rule.count))

\* rule.between(after, before, inc=False): after < t < before
rule_between(rule, after, before) ==
    SelectSeq(rule_slice(rule, CountBefore(rule, before)),
              LAMBDA t : t > after)

\* rule.after(dt, inc=False): the first occurrence t > dt, or None
rule_after(rule, dt) ==
    LET k == IF dt < rule.dtstart THEN 0
             ELSE (dt - rule.dtstart) \div rule.step + 1
    IN  IF ~IsNone(rule.count) /\ k >= Val(rule.count) THEN None
        ELSE Some(rule.dtstart + k * rule.step)

-----------------------------------------------------------------------------
(* utils/recurrence.py                                                     *)

\* the default cap of generate_occurrences
DefaultOccurrences == 100

Raised(exc) == [outcome |-> "raise", kind |-> exc, value |-> <<>>]
Returned(kind, value) == [outcome |-> "return", kind |-> kind, value |-> value]

validate_rrule(rrule_str) ==
    IF rrulestr(rrule_str, 0).error = "none"
    THEN Returned("True", <<>>)
    ELSE Returned("False", <<>>)

\* `if count:` is false for None and for 0; `elif end:` is false for None
\* only (a datetime is always true).
generate_occurrences(rrule_str, start, end, count) ==
    LET rule == rrulestr(rrule_str, start)
    IN  IF rule.error # "none" THEN Raised(rule.error)
        ELSE IF ~IsNone(count) /\ Val(count) # 0
        THEN IF Val(count) < 0
             THEN Raised("ValueError")                 \* islice: negative stop
             ELSE Returned("list", rule_slice(rule, Val(count)))
        ELSE IF ~IsNone(end)
        THEN Returned("list", rule_between(rule, start, Val(end)))
        ELSE Returned("list", rule_slice(rule, DefaultOccurrences))

\* rrulestr is called before the try block, so its exceptions propagate.
get_next_occurrence(rrule_str, after) ==
    LET rule == rrulestr(rrule_str, after)
        nxt  == rule_after(rule, after)
    IN  IF rule.error # "none" THEN Raised(rule.error)
        ELSE IF IsNone(nxt) THEN Returned("None", <<>>)
        ELSE Returned("datetime", nxt)

\* Inputs.
MaxRuleParts == 2
MaxTime == 5
MaxCount == 3

RRuleParts ==
    { <<"FREQ", "DAILY">>, <<"FREQ", "WEEKLY">>, <<"FREQ", "BOGUS">>,
      <<"INTERVAL", <<"2">>>>, <<"INTERVAL", <<"x">>>>,
      <<"COUNT", <<"0">>>>, <<"COUNT", <<"2">>>>, <<"COUNT", <<"4">>>>,
      <<"FOO", <<"1">>>>, <<"INVALID">> }

RRuleStrings == SeqsUpTo(RRuleParts, MaxRuleParts)

Optional(S) == { None } \cup { Some(x) : x \in S }

RrNoResult == [op |-> "none", outcome |-> "none", kind |-> "none", value |-> <<>>]

RrIdle ==
    /\ rrIn = [rrule_str |-> <<>>, start |-> 0, end |-> None, count |-> None]
    /\ rrOut = RrNoResult

RrInit ==
    /\ rrIn \in [rrule_str : RRuleStrings,
                 start : {0, 1},
                 end : Optional(0..MaxTime),
                 count : Optional(-1..MaxCount)]
    /\ rrOut = RrNoResult

WithOp(op, r) ==
    [op |-> op, outcome |-> r.outcome, kind |-> r.kind, value |-> r.value]

ValidateRrule ==
    /\ rrOut.op = "none"
    /\ rrOut' = WithOp("validate_rrule", validate_rrule(rrIn.rrule_str))
    /\ UNCHANGED <<rrIn, uidVars, boxVars, cfgVars, loadOut,
                 regVars, hashVars, isoVars>>

GenerateOccurrences ==
    /\ rrOut.op = "none"
    /\ rrOut' = WithOp("generate_occurrences",
                       generate_occurrences(rrIn.rrule_str, rrIn.start,
                                            rrIn.end, rrIn.count))
    /\ UNCHANGED <<rrIn, uidVars, boxVars, cfgVars, loadOut,
                 regVars, hashVars, isoVars>>

\* get_next_occurrence(rrule_str, after), with after = rrIn.start
GetNextOccurrence ==
    /\ rrOut.op = "none"
    /\ rrOut' = WithOp("get_next_occurrence",
                       get_next_occurrence(rrIn.rrule_str, rrIn.start))
    /\ UNCHANGED <<rrIn, uidVars, boxVars, cfgVars, loadOut,
                 regVars, hashVars, isoVars>>

RrNext ==
    \/ ValidateRrule
    \/ GenerateOccurrences
    \/ GetNextOccurrence

-----------------------------------------------------------------------------
(* Mappings (Python dicts, object attributes) and value conversions.       *)

EmptyMap == [k \in {} |-> 0]

\* d[k] = v, setattr(obj, k, v)
Put(d, k, v) == [x \in DOMAIN d \cup {k} |-> IF x = k THEN v ELSE d[x]]

\* for key, value in src.items(): setattr(obj, key, value)
Merge(d, src) ==
    [x \in DOMAIN d \cup DOMAIN src |-> IF x \in DOMAIN src THEN src[x] ELSE d[x]]

\* text.split(sep)
RECURSIVE SplitOn(_, _)
SplitOn(s, sep) ==
    IF \A i \in 1..Len(s) : s[i] # sep THEN <<s>>
    ELSE LET i == CHOOSE i \in 1..Len(s) :
                     s[i] = sep /\ \A j \in 1..(i - 1) : s[j] # sep
         IN  <<SubSeq(s, 1, i - 1)>> \o SplitOn(SubSeq(s, i + 1, Len(s)), sep)

\* pathlib.Path(s) on POSIX: repeated and trailing slashes and "." segments
\* are dropped, a leading slash makes the path absolute.  (A path starting
\* with exactly two slashes keeps them; no input of the model does.)
Path(s) ==
    [root  |-> s # <<>> /\ Head(s) = "/",
     parts |-> SelectSeq(SplitOn(s, "/"), LAMBDA p : p # <<>> /\ p # <<".">>)]

\* float(s), in hundredths: blanks around, an optional sign, digits with an
\* optional "." and up to two decimals.  (Exponents, inf/nan and further
\* decimals are not modelled.)
ParseFloat(s) ==
    LET t     == Strip(s)
        sgn   == t # <<>> /\ Head(t) \in {"-", "+"}
        body  == IF sgn THEN Tail(t) ELSE t
        halves == SplitOn(body, ".")
        whole == halves[1]
        frac  == IF Len(halves) = 2 THEN halves[2] ELSE <<>>
        cents == IF Len(frac) = 0 THEN 0
                 ELSE IF Len(frac) = 1 THEN 10 * DigitsVal(frac)
                 ELSE DigitsVal(frac)
        mag   == 100 * DigitsVal(whole) + cents
    IN  IF /\ Len(halves) <= 2
           /\ Len(frac) <= 2
           /\ AllDigits(whole) /\ AllDigits(frac)
           /\ whole \o frac # <<>>
        THEN [ok |-> TRUE, val |-> IF sgn /\ Head(t) = "-" THEN 0 - mag ELSE mag]
        ELSE [ok |-> FALSE, val |-> 0]

-----------------------------------------------------------------------------
(* utils/config/profiles.py                                                *)
(* fossilization_threshold is kept in hundredths (0.90 is 90).             *)

PROFILES ==
    [embedded |->
        [max_view_entries |-> 100,
         max_search_results |-> 20,
         fossilization_threshold |-> 80,
         wal_checkpoint_interval |-> 300,
         log_level |-> "warning"],
     standard |->
        [max_view_entries |-> 1000,
         max_search_results |-> 100,
         fossilization_threshold |-> 90,
         wal_checkpoint_interval |-> 60,
         log_level |-> "info"]]

\* ResourceProfile.get_profile(name): a copy of the profile, or ValueError
get_profile(name) ==
    IF name \notin DOMAIN PROFILES
    THEN [error |-> "ValueError", profile |-> EmptyMap]
    ELSE [error |-> "none", profile |-> PROFILES[name]]

-----------------------------------------------------------------------------
(* utils/config/base.py                                                    *)

\* A seeded slip: a default that drifted from the documented one.
DEFAULTS_drifted ==
    [max_view_entries |-> 1000,
     max_search_results |-> 100,
     fossilization_threshold |-> 90,
     wal_checkpoint_interval |-> 60,
     log_level |-> "info",
     bind_address |-> "0.0.0.0",
     bind_port |-> 8080,
     encryption |-> "disabled"]

DEFAULTS ==
    [max_view_entries |-> 1000,
     max_search_results |-> 100,
     fossilization_threshold |-> 90,
     wal_checkpoint_interval |-> 60,
     log_level |-> "info",
     bind_address |-> "127.0.0.1",
     bind_port |-> 8080,
     encryption |-> "disabled"]

Sections == { "runtime", "network", "security", "paths" }

\* self._config.get(section, {}): an absent section is the empty mapping
EmptyToml == [sec \in Sections |-> EmptyMap]

\* A seeded slip: the file looked for before the parser.
load_toml_config_exists_first(file, parser) ==
    IF file.state = "absent"
    THEN [error |-> "FileNotFoundError", config |-> EmptyToml]
    ELSE IF ~parser
    THEN [error |-> "ImportError", config |-> EmptyToml]
    ELSE IF file.state = "invalid"
    THEN [error |-> "ValueError", config |-> EmptyToml]
    ELSE [error |-> "none", config |-> file.toml]

\* load_toml_config(config_path), config_path being the file `file`
load_toml_config(file, parser) ==
    IF ~parser
    THEN [error |-> "ImportError", config |-> EmptyToml]
    ELSE IF file.state = "absent"
    THEN [error |-> "FileNotFoundError", config |-> EmptyToml]
    ELSE IF file.state = "invalid"
    THEN [error |-> "ValueError", config |-> EmptyToml]
    ELSE [error |-> "none", config |-> file.toml]

\* if section.get(key): self.<key> = Path(section[key])
PutPath(attrs, section, key) ==
    IF key \in DOMAIN section /\ section[key] # <<>>
    THEN Put(attrs, key, Path(section[key]))
    ELSE attrs

\* if key in section: self.<key> = section[key]
PutIfPresent(attrs, section, key) ==
    IF key \in DOMAIN section THEN Put(attrs, key, section[key]) ELSE attrs

\* A seeded slip: the profile name checked after the sections were applied.
apply_toml_config_validates_late(attrs, config) ==
    LET runtime_config   == config["runtime"]
        resource_profile == IF "resource_profile" \in DOMAIN runtime_config
                            THEN runtime_config["resource_profile"]
                            ELSE "standard"
        a1 == Put(attrs, "_resource_profile", resource_profile)
        got == get_profile(resource_profile)
        a2 == Merge(a1, got.profile)
        overrides == [k \in DOMAIN runtime_config \ {"resource_profile"} |->
                        runtime_config[k]]
        a3 == Merge(a2, overrides)
        a4 == PutIfPresent(a3, config["network"], "bind_address")
        a5 == PutIfPresent(a4, config["network"], "bind_port")
        a6 == PutIfPresent(a5, config["security"], "encryption")
        a7 == PutPath(a6, config["paths"], "data_dir")
        a8 == PutPath(a7, config["paths"], "config_dir")
        a9 == PutPath(a8, config["paths"], "log_dir")
    IN  IF got.error # "none"
        THEN [error |-> got.error, attrs |-> a9]
        ELSE [error |-> "none", attrs |-> a9]

\* Settings._apply_toml_config, on the attributes `attrs` with self._config
\* = config: the attributes afterwards and the exception raised, if any.
\* An unknown profile raises after _resource_profile has been assigned.
apply_toml_config(attrs, config) ==
    LET runtime_config   == config["runtime"]
        resource_profile == IF "resource_profile" \in DOMAIN runtime_config
                            THEN runtime_config["resource_profile"]
                            ELSE "standard"
        a1 == Put(attrs, "_resource_profile", resource_profile)
        got == get_profile(resource_profile)
        a2 == Merge(a1, got.profile)
        overrides == [k \in DOMAIN runtime_config \ {"resource_profile"} |->
                        runtime_config[k]]
        a3 == Merge(a2, overrides)
        a4 == PutIfPresent(a3, config["network"], "bind_address")
        a5 == PutIfPresent(a4, config["network"], "bind_port")
        a6 == PutIfPresent(a5, config["security"], "encryption")
        a7 == PutPath(a6, config["paths"], "data_dir")
        a8 == PutPath(a7, config["paths"], "config_dir")
        a9 == PutPath(a8, config["paths"], "log_dir")
    IN  IF got.error # "none"
        THEN [error |-> got.error, attrs |-> a1]
        ELSE [error |-> "none", attrs |-> a9]

\* The MEMOGARDEN_* variables after MEMOGARDEN_RESOURCE_PROFILE, in the
\* order _apply_env_vars reads them: <<variable, attribute, conversion>>.
EnvTable ==
    << <<"MEMOGARDEN_MAX_VIEW_ENTRIES", "max_view_entries", "int">>,
       <<"MEMOGARDEN_MAX_SEARCH_RESULTS", "max_search_results", "int">>,
       <<"MEMOGARDEN_FOSSILIZATION_THRESHOLD", "fossilization_threshold", "float">>,
       <<"MEMOGARDEN_WAL_CHECKPOINT_INTERVAL", "wal_checkpoint_interval", "int">>,
       <<"MEMOGARDEN_LOG_LEVEL", "log_level", "str">>,
       <<"MEMOGARDEN_BIND_ADDRESS", "bind_address", "str">>,
       <<"MEMOGARDEN_BIND_PORT", "bind_port", "int">>,
       <<"MEMOGARDEN_ENCRYPTION", "encryption", "str">>,
       <<"MEMOGARDEN_DATA_DIR", "data_dir", "path">>,
       <<"MEMOGARDEN_CONFIG_DIR", "config_dir", "path">>,
       <<"MEMOGARDEN_LOG_DIR", "log_dir", "path">> >>

\* int(raw), float(raw), raw, Path(raw)
Convert(kind, raw) ==
    IF kind = "int" THEN ParseInt(raw)
    ELSE IF kind = "float" THEN ParseFloat(raw)
    ELSE IF kind = "path" THEN [ok |-> TRUE, val |-> Path(raw)]
    ELSE [ok |-> TRUE, val |-> raw]

\* the `if "X" in os.environ: self.x = conv(os.environ["X"])` statements
\* from the i-th on; a failed conversion raises ValueError and ends them
RECURSIVE ApplyEnvFrom(_, _, _)
ApplyEnvFrom(i, attrs, env) ==
    IF i > Len(EnvTable) THEN [error |-> "none", attrs |-> attrs]
    ELSE LET var  == EnvTable[i][1]
             attr == EnvTable[i][2]
             kind == EnvTable[i][3]
         IN  IF var \notin DOMAIN env THEN ApplyEnvFrom(i + 1, attrs, env)
             ELSE IF ~Convert(kind, env[var]).ok
             THEN [error |-> "ValueError", attrs |-> attrs]
             ELSE ApplyEnvFrom(i + 1, Put(attrs, attr, Convert(kind, env[var]).val),
                               env)

\* A seeded slip: the profile of MEMOGARDEN_RESOURCE_PROFILE merged after the
\* specific variables instead of before them.
apply_env_vars_profile_last(attrs, env) ==
    LET specific == ApplyEnvFrom(1, attrs, env)
    IN  IF specific.error # "none" \/ "MEMOGARDEN_RESOURCE_PROFILE" \notin DOMAIN env
        THEN specific
        ELSE LET profile == env["MEMOGARDEN_RESOURCE_PROFILE"]
                 a1  == Put(specific.attrs, "_resource_profile", profile)
                 got == get_profile(profile)
             IN  IF got.error # "none"
                 THEN [error |-> got.error, attrs |-> a1]
                 ELSE [error |-> "none", attrs |-> Merge(a1, got.profile)]

\* Settings._apply_env_vars
apply_env_vars(attrs, env) ==
    IF "MEMOGARDEN_RESOURCE_PROFILE" \in DOMAIN env
    THEN LET profile == env["MEMOGARDEN_RESOURCE_PROFILE"]
             a1  == Put(attrs, "_resource_profile", profile)
             got == get_profile(profile)
         IN  IF got.error # "none"
             THEN [error |-> got.error, attrs |-> a1]
             ELSE ApplyEnvFrom(1, Merge(a1, got.profile), env)
    ELSE ApplyEnvFrom(1, attrs, env)

\* Settings.__init__ up to the TOML step (lines 131-156): the defaults, then
\* the file if it exists.  ImportError and ValueError are caught and warned
\* about; the attributes keep what was assigned before the exception.
init_toml_step(file, parser) ==
    LET a0 == Merge([default_currency |-> "SGD"], DEFAULTS)
        a1 == Put(Put(a0, "_resource_profile", "standard"), "_config", EmptyToml)
        loaded == load_toml_config(file, parser)
    IN  IF file.state = "absent"
        THEN [error |-> "none", attrs |-> a1]
        ELSE IF loaded.error # "none"
        THEN [error |-> loaded.error, attrs |-> a1]
        ELSE apply_toml_config(Put(a1, "_config", loaded.config), loaded.config)

\* A seeded slip: `except ValueError` alone, so that a missing TOML parser
\* ends the construction.
init_env_step_import_error_escapes(toml, final) ==
    IF toml.error \notin {"none", "ValueError"}
    THEN [error |-> toml.error, attrs |-> toml.attrs, warnings |-> 0]
    ELSE [error |-> final.error, attrs |-> final.attrs,
          warnings |-> IF toml.error = "none" THEN 0 ELSE 1]

\* the rest of Settings.__init__ (line 159), given the outcome of the TOML step
init_env_step(toml, final) ==
    IF toml.error \notin {"none", "ImportError", "ValueError"}
    THEN [error |-> toml.error, attrs |-> toml.attrs, warnings |-> 0]
    ELSE [error |-> final.error, attrs |-> final.attrs,
          warnings |-> IF toml.error = "none" THEN 0 ELSE 1]

\* Settings.__init__(config_path=<the file>): the attributes, the exception
\* that left the constructor (if any) and the number of warnings emitted.
Settings_init(env, file, parser) ==
    LET toml == init_toml_step(file, parser)
    IN  init_env_step(toml, apply_env_vars(toml.attrs, env))

\* Inputs: the environment and the file at the resolved config path.
MaxEnvSet == 2
MaxTomlKeys == 2

EnvNames ==
    { "MEMOGARDEN_RESOURCE_PROFILE" } \cup { EnvTable[i][1] : i \in 1..Len(EnvTable) }

\* the values a variable may be set to: parseable and unparseable ones
EnvValues(var) ==
    IF var = "MEMOGARDEN_RESOURCE_PROFILE" THEN { "embedded", "turbo" }
    ELSE IF var = "MEMOGARDEN_MAX_VIEW_ENTRIES" THEN { <<"7">>, <<"x">> }
    ELSE IF var = "MEMOGARDEN_MAX_SEARCH_RESULTS" THEN { <<" ", "7">> }
    ELSE IF var = "MEMOGARDEN_FOSSILIZATION_THRESHOLD" THEN { <<"0", ".", "5">> }
    ELSE IF var = "MEMOGARDEN_WAL_CHECKPOINT_INTERVAL" THEN { <<"+", "7">> }
    ELSE IF var = "MEMOGARDEN_LOG_LEVEL" THEN { "debug" }
    ELSE IF var = "MEMOGARDEN_BIND_ADDRESS" THEN { "0.0.0.0" }
    ELSE IF var = "MEMOGARDEN_BIND_PORT" THEN { <<"9", "0">>, <<"9", ".", "0">> }
    ELSE IF var = "MEMOGARDEN_ENCRYPTION" THEN { "aes" }
    ELSE IF var = "MEMOGARDEN_DATA_DIR" THEN { <<"/", "d", "/">> }
    ELSE IF var = "MEMOGARDEN_CONFIG_DIR" THEN { <<"d", "/", "/", "e">> }
    ELSE { <<".", "/", "d">> }

\* all mappings that give each name of D one of its values
RECURSIVE EnvMaps(_)
EnvMaps(D) ==
    IF D = {} THEN { EmptyMap }
    ELSE LET k == CHOOSE k \in D : TRUE
         IN  { Put(f, k, v) : f \in EnvMaps(D \ {k}), v \in EnvValues(k) }

SubsetsUpTo(S, n) == { D \in SUBSET S : Cardinality(D) <= n }

Environments == UNION { EnvMaps(D) : D \in SubsetsUpTo(EnvNames, MaxEnvSet) }

\* the keys a config file may set, <<section, key>>, and their values
TomlKeys ==
    { <<"runtime", "resource_profile">>, <<"runtime", "max_view_entries">>,
      <<"runtime", "max_search_results">>, <<"runtime", "fossilization_threshold">>,
      <<"runtime", "wal_checkpoint_interval">>, <<"runtime", "log_level">>,
      <<"runtime", "default_currency">>,
      <<"network", "bind_address">>, <<"network", "bind_port">>,
      <<"security", "encryption">>,
      <<"paths", "data_dir">>, <<"paths", "config_dir">>, <<"paths", "log_dir">> }

TomlValues(sk) ==
    IF sk[2] = "resource_profile" THEN { "embedded", "turbo" }
    ELSE IF sk[2] \in { "max_view_entries", "max_search_results",
                        "wal_checkpoint_interval" } THEN { 5 }
    ELSE IF sk[2] = "fossilization_threshold" THEN { 50 }
    ELSE IF sk[2] = "log_level" THEN { "error" }
    ELSE IF sk[2] = "default_currency" THEN { "USD" }
    ELSE IF sk[2] = "bind_address" THEN { "10.0.0.1" }
    ELSE IF sk[2] = "bind_port" THEN { 9000 }
    ELSE IF sk[2] = "encryption" THEN { "aes256" }
    ELSE IF sk[2] = "data_dir" THEN { <<"/", "t">>, <<>> }
    ELSE { <<"/", "t">> }

RECURSIVE TomlDocs(_)
TomlDocs(K) ==
    IF K = {} THEN { EmptyToml }
    ELSE LET sk == CHOOSE sk \in K : TRUE
         IN  { [doc EXCEPT ![sk[1]] = Put(doc[sk[1]], sk[2], v)] :
                 doc \in TomlDocs(K \ {sk}), v \in TomlValues(sk) }

ConfigFiles ==
    { [state |-> "absent", toml |-> EmptyToml],
      [state |-> "invalid", toml |-> EmptyToml] }
    \cup { [state |-> "ok", toml |-> doc] :
             doc \in UNION { TomlDocs(K) : K \in SubsetsUpTo(TomlKeys, MaxTomlKeys) } }

CfgNotRun == [pc |-> "start", error |-> "none", warnings |-> 0]

CfgIdle ==
    /\ environ = EmptyMap
    /\ configFile = [state |-> "absent", toml |-> EmptyToml]
    /\ tomllib = TRUE
    /\ settings = EmptyMap
    /\ cfgOut = CfgNotRun

CfgInit ==
    /\ environ \in Environments
    /\ configFile \in ConfigFiles
    /\ tomllib \in BOOLEAN
    /\ (~tomllib => configFile.toml = EmptyToml)  \* never read without a parser
    /\ settings = EmptyMap
    /\ cfgOut = CfgNotRun

\* Settings(config_path=...): the whole constructor
Construct ==
    /\ cfgOut.pc = "start"
    /\ \E r \in {Settings_init(environ, configFile, tomllib)} :
           /\ settings' = r.attrs
           /\ cfgOut' = [pc |-> IF r.error = "none" THEN "constructed" ELSE "raised",
                         error |-> r.error,
                         warnings |-> r.warnings]
    /\ UNCHANGED <<environ, configFile, tomllib, loadOut, uidVars, boxVars, rrVars,
                   regVars, hashVars, isoVars>>

-----------------------------------------------------------------------------
(* utils/config/profiles.py as shared state.                               *)
(*                                                                         *)
(* ResourceProfile.PROFILES is a class attribute: two dicts that live as   *)
(* long as the process.  Python hands out references, so dicts are objects *)
(* on a heap: regHeap maps an object id to the mapping the object holds.   *)
(* The operator get_profile above is the value a call returns while the    *)
(* registry holds PROFILES; the operators here work on the objects.        *)

\* cls.PROFILES: profile name -> the id of its dict
ProfileRef == [embedded |-> 1, standard |-> 2]

RegistryIds == { ProfileRef[n] : n \in DOMAIN ProfileRef }

\* the heap once the module is imported
RegistryHeap ==
    [id \in RegistryIds |->
        IF id = ProfileRef["embedded"] THEN PROFILES["embedded"]
        ELSE PROFILES["standard"]]

\* the id of a new object: the lowest one not in use
NewId(heap) ==
    CHOOSE id \in 1..(Cardinality(DOMAIN heap) + 1) :
        /\ id \notin DOMAIN heap
        /\ \A j \in 1..(id - 1) : j \in DOMAIN heap

\* objects nobody refers to any more are gone
Collect(heap, live) == [id \in DOMAIN heap \cap live |-> heap[id]]

\* del d[k]
Remove(d, k) == [x \in DOMAIN d \ {k} |-> d[x]]

\* A seeded slip: the registry's own dict returned instead of a copy of it.
ResourceProfile_get_profile_shared(heap, name) ==
    IF name \notin DOMAIN ProfileRef
    THEN [error |-> "ValueError", heap |-> heap, ref |-> 0]
    ELSE [error |-> "none", heap |-> heap, ref |-> ProfileRef[name]]

\* ResourceProfile.get_profile(name) on the heap: cls.PROFILES[name].copy()
\* is a new object with the same items; `ref` is the reference returned.
ResourceProfile_get_profile(heap, name) ==
    IF name \notin DOMAIN ProfileRef
    THEN [error |-> "ValueError", heap |-> heap, ref |-> 0]
    ELSE [error |-> "none",
          heap |-> Put(heap, NewId(heap), heap[ProfileRef[name]]),
          ref |-> NewId(heap)]

\* profile_settings = ResourceProfile.get_profile(name), then
\* `for key, value in profile_settings.items(): setattr(self, key, value)`:
\* the mapping is read, never written, and its reference is dropped when the
\* method returns.  `live` are the objects that stay referred to.
merge_profile(heap, live, merged, name) ==
    LET got == ResourceProfile_get_profile(heap, name)
    IN  IF got.error # "none"
        THEN [error |-> got.error, heap |-> heap, merged |-> merged]
        ELSE [error |-> "none",
              heap |-> Collect(got.heap, live),
              merged |-> Merge(merged, got.heap[got.ref])]

\* The registry's part of Settings.__init__: the profile the file names
\* (None: no file was applied), whose ValueError is caught, then the profile
\* MEMOGARDEN_RESOURCE_PROFILE names (None: not set), whose ValueError is not.
settings_profile_merges(heap, live, toml, env) ==
    LET m0 == [f \in DOMAIN PROFILES["standard"] |-> DEFAULTS[f]]
        s0 == [error |-> "none", heap |-> heap, merged |-> m0]
        s1 == IF IsNone(toml) THEN s0
              ELSE merge_profile(heap, live, m0, Val(toml))
    IN  IF IsNone(env) THEN [s1 EXCEPT !.error = "none"]
        ELSE merge_profile(s1.heap, live, s1.merged, Val(env))

\* Uses of the registry.
MaxHeld == 2

ProfileNames == { "embedded", "standard", "turbo" }

\* what a caller may do to a mapping it was given: d[k] = v and del d[k]
CallerWrites ==
    { <<"max_view_entries", 0>>, <<"log_level", "debug">>, <<"extra", 0>> }
CallerDeletes == { "log_level" }

RegNoResult == [op |-> "none", error |-> "none", merged |-> EmptyMap]

RegIdle ==
    /\ regHeap = RegistryHeap
    /\ regHeld = {}
    /\ regOut = RegNoResult

RegInit == RegIdle

\* a caller calls get_profile(name) and keeps what it returns
GetProfile ==
    /\ Cardinality(regHeld) < MaxHeld
    /\ \E name \in ProfileNames :
         \E r \in {ResourceProfile_get_profile(regHeap, name)} :
           /\ regHeap' = r.heap
           /\ regHeld' = IF r.error = "none" THEN regHeld \cup {r.ref} ELSE regHeld
           /\ regOut' = [op |-> "get_profile", error |-> r.error, merged |-> EmptyMap]
    /\ UNCHANGED <<uidVars, boxVars, rrVars, cfgVars, loadOut, hashVars, isoVars>>

\* a caller changes a mapping it holds
MutateReturned ==
    /\ \E id \in regHeld :
         \/ \E w \in CallerWrites :
              regHeap' = [regHeap EXCEPT ![id] = Put(@, w[1], w[2])]
         \/ \E k \in CallerDeletes \cap DOMAIN regHeap[id] :
              regHeap' = [regHeap EXCEPT ![id] = Remove(@, k)]
    /\ regOut' = [op |-> "mutate", error |-> "none", merged |-> EmptyMap]
    /\ UNCHANGED <<regHeld, uidVars, boxVars, rrVars, cfgVars, loadOut, hashVars,
                   isoVars>>

\* a caller lets go of a mapping it holds
DropReturned ==
    /\ \E id \in regHeld :
         /\ regHeld' = regHeld \ {id}
         /\ regHeap' = Collect(regHeap, RegistryIds \cup (regHeld \ {id}))
    /\ regOut' = [op |-> "drop", error |-> "none", merged |-> EmptyMap]
    /\ UNCHANGED <<uidVars, boxVars, rrVars, cfgVars, loadOut, hashVars, isoVars>>

\* a Settings object is constructed, with or without a profile in the file
\* and in the environment
ConstructSettings ==
    /\ \E toml \in Optional(ProfileNames), env \in Optional(ProfileNames) :
         \E r \in {settings_profile_merges(regHeap, RegistryIds \cup regHeld,
                                           toml, env)} :
           /\ regHeap' = r.heap
           /\ regOut' = [op |-> "Settings", error |-> r.error, merged |-> r.merged]
    /\ UNCHANGED <<regHeld, uidVars, boxVars, rrVars, cfgVars, loadOut, hashVars,
                   isoVars>>

RegNext ==
    \/ GetProfile
    \/ MutateReturned
    \/ DropReturned
    \/ ConstructSettings

-----------------------------------------------------------------------------
(* utils/hash_chain.py                                                     *)

\* the literal text of the f-string that builds hash_input
LabelType ==
    <<"t", "y", "p", "e", ":">>
LabelCreatedAt ==
    <<"c", "r", "e", "a", "t", "e", "d", "_", "a", "t", ":">>
LabelUpdatedAt ==
    <<"u", "p", "d", "a", "t", "e", "d", "_", "a", "t", ":">>
LabelGroupId ==
    <<"g", "r", "o", "u", "p", "_", "i", "d", ":">>
LabelDerivedFrom ==
    <<"d", "e", "r", "i", "v", "e", "d", "_", "f", "r", "o", "m", ":">>
LabelSupersededBy ==
    <<"s", "u", "p", "e", "r", "s", "e", "d", "e", "d", "_", "b", "y", ":">>
LabelSupersededAt ==
    <<"s", "u", "p", "e", "r", "s", "e", "d", "e", "d", "_", "a", "t", ":">>
LabelPreviousHash ==
    <<"p", "r", "e", "v", "i", "o", "u", "s", "_", "h", "a", "s", "h", ":">>

Pipe == <<"|">>

\* `x or ''`: the empty string for None and for the empty string
OrEmpty(o) == IF IsNone(o) THEN <<>> ELSE Val(o)

\* A seeded slip: superseded_at left out of the hash input.
hash_input_without_superseded_at(entity_type, created_at, updated_at, group_id, derived_from, superseded_by, superseded_at, previous_hash) ==
    LabelType \o entity_type \o Pipe
    \o LabelCreatedAt \o created_at \o Pipe
    \o LabelUpdatedAt \o updated_at \o Pipe
    \o LabelGroupId \o OrEmpty(group_id) \o Pipe
    \o LabelDerivedFrom \o OrEmpty(derived_from) \o Pipe
    \o LabelSupersededBy \o OrEmpty(superseded_by) \o Pipe
    \o LabelPreviousHash \o OrEmpty(previous_hash)

\* hash_input of compute_entity_hash
hash_input(entity_type, created_at, updated_at, group_id, derived_from, superseded_by, superseded_at, previous_hash) ==
    LabelType \o entity_type \o Pipe
    \o LabelCreatedAt \o created_at \o Pipe
    \o LabelUpdatedAt \o updated_at \o Pipe
    \o LabelGroupId \o OrEmpty(group_id) \o Pipe
    \o LabelDerivedFrom \o OrEmpty(derived_from) \o Pipe
    \o LabelSupersededBy \o OrEmpty(superseded_by) \o Pipe
    \o LabelSupersededAt \o OrEmpty(superseded_at) \o Pipe
    \o LabelPreviousHash \o OrEmpty(previous_hash)

\* hashlib.sha256(text.encode()).hexdigest(), taken as an injective map from
\* text to hexadecimal text: every character becomes the two hexadecimal
\* digits of its place in the alphabet.  (The real digest has 64 digits and
\* is injective only for practical purposes.)
HexDigits ==
    << "0", "1", "2", "3", "4", "5", "6", "7", "8", "9", "a", "b", "c", "d",
       "e", "f" >>

HashAlphabet ==
    << "0", "1", "2", "3", "4", "5", "6", "7", "8", "9", "a",
       "b", "c", "d", "e", "f", "g", "h", "i", "m", "o", "p",
       "r", "s", "t", "u", "v", "x", "y", "z", "_", ":", "|" >>

CharCode(c) == (CHOOSE i \in 1..Len(HashAlphabet) : HashAlphabet[i] = c) - 1

sha256_hexdigest(text) ==
    [k \in 1..(2 * Len(text)) |->
        IF k % 2 = 1
        THEN HexDigits[(CharCode(text[(k + 1) \div 2]) \div 16) + 1]
        ELSE HexDigits[(CharCode(text[k \div 2]) % 16) + 1]]

compute_entity_hash(entity_type, created_at, updated_at, group_id, derived_from, superseded_by, superseded_at, previous_hash) ==
    sha256_hexdigest(hash_input(entity_type, created_at, updated_at, group_id,
                                derived_from, superseded_by, superseded_at,
                                previous_hash))

\* A seeded slip: the arguments handed on by position, in compute_next_hash's
\* own parameter order.
compute_next_hash_by_position(entity_type, created_at, updated_at, current_hash, group_id, derived_from, superseded_by, superseded_at) ==
    compute_entity_hash(entity_type, created_at, updated_at, current_hash,
                        group_id, derived_from, superseded_by, superseded_at)

\* compute_next_hash: the arguments handed on by keyword, current_hash as
\* previous_hash
compute_next_hash(entity_type, created_at, updated_at, current_hash, group_id, derived_from, superseded_by, superseded_at) ==
    compute_entity_hash(entity_type, created_at, updated_at, group_id,
                        derived_from, superseded_by, superseded_at,
                        current_hash)

\* compute_entity_hash(**args)
entity_hash_of(args) ==
    compute_entity_hash(args.entity_type, args.created_at, args.updated_at,
                        args.group_id, args.derived_from, args.superseded_by,
                        args.superseded_at, args.previous_hash)

\* compute_next_hash(current_hash=current_hash, **fields)
next_hash_of(fields, current_hash) ==
    compute_next_hash(fields.entity_type, fields.created_at, fields.updated_at,
                      current_hash, fields.group_id, fields.derived_from,
                      fields.superseded_by, fields.superseded_at)

\* Inputs.  Text values are short; two of them hold the text of a
\* separator and a label.
MaxChanged == 2
MaxChain == 2

HashFields ==
    { "entity_type", "created_at", "updated_at", "group_id", "derived_from",
      "superseded_by", "superseded_at", "previous_hash" }

OptionalHashFields ==
    { "group_id", "derived_from", "superseded_by", "superseded_at",
      "previous_hash" }

FieldValues(f) ==
    IF f = "entity_type"
    THEN { <<"x">>, <<"x">> \o Pipe \o LabelCreatedAt \o <<"y">> }
    ELSE IF f = "created_at"
    THEN { <<"z">>, <<"y">>, <<"y">> \o Pipe \o LabelCreatedAt \o <<"z">> }
    ELSE IF f = "updated_at"
    THEN { <<"1">>, <<"2">> }
    ELSE IF f = "previous_hash"
    THEN { None, Some(<<>>), Some(<<"a", "0">>) }
    ELSE { None, Some(<<>>), Some(<<"g">>) }

\* the calls a run starts from: nothing optional given, everything given,
\* and one whose created_at holds a separator
HashBaseArgs ==
    { [entity_type |-> <<"x">>, created_at |-> <<"z">>, updated_at |-> <<"1">>,
       group_id |-> None, derived_from |-> None, superseded_by |-> None,
       superseded_at |-> None, previous_hash |-> None],
      [entity_type |-> <<"x">>, created_at |-> <<"y">>, updated_at |-> <<"1">>,
       group_id |-> Some(<<"g">>), derived_from |-> Some(<<"g">>),
       superseded_by |-> Some(<<"g">>), superseded_at |-> Some(<<"g">>),
       previous_hash |-> Some(<<"a", "0">>)],
      [entity_type |-> <<"x">>,
       created_at |-> <<"y">> \o Pipe \o LabelCreatedAt \o <<"z">>,
       updated_at |-> <<"1">>,
       group_id |-> Some(<<>>), derived_from |-> None, superseded_by |-> None,
       superseded_at |-> None, previous_hash |-> None] }

HashNotRun == [pc |-> "start", changed |-> {}, digA |-> <<>>, digB |-> <<>>]
NoChain == [next |-> <<>>, entity |-> <<>>]

HashIdle ==
    /\ hashA = CHOOSE a \in HashBaseArgs : a.created_at = <<"z">>
    /\ hashB = hashA
    /\ hashOut = HashNotRun
    /\ hashChain = NoChain

HashInit ==
    /\ hashA \in HashBaseArgs
    /\ hashB = hashA
    /\ hashOut = HashNotRun
    /\ hashChain = NoChain

\* the second call is given another value for one more of its arguments
ChangeField ==
    /\ hashOut.pc = "start"
    /\ Cardinality(hashOut.changed) < MaxChanged
    /\ \E f \in HashFields \ hashOut.changed :
         \E v \in FieldValues(f) \ {hashA[f]} :
           /\ hashB' = [hashB EXCEPT ![f] = v]
           /\ hashOut' = [hashOut EXCEPT !.changed = @ \cup {f}]
    /\ UNCHANGED <<hashA, hashChain, uidVars, boxVars, rrVars, cfgVars, loadOut,
                   regVars, isoVars>>

\* compute_entity_hash is called with the one and with the other arguments
ComputeEntityHash ==
    /\ hashOut.pc = "start"
    /\ hashOut' = [hashOut EXCEPT !.pc = "hashed",
                                  !.digA = entity_hash_of(hashA),
                                  !.digB = entity_hash_of(hashB)]
    /\ UNCHANGED <<hashA, hashB, hashChain, uidVars, boxVars, rrVars, cfgVars,
                   loadOut, regVars, isoVars>>

\* an entity is created: its first hash, by compute_entity_hash
CreateEntity ==
    /\ hashOut.pc = "start"
    /\ hashOut.changed = {}
    /\ \E h \in {entity_hash_of(hashA)} :
         hashChain' = [next |-> <<h>>, entity |-> <<h>>]
    /\ hashOut' = [hashOut EXCEPT !.pc = "chain"]
    /\ UNCHANGED <<hashA, hashB, uidVars, boxVars, rrVars, cfgVars, loadOut,
                   regVars, isoVars>>

\* the entity is updated: one chain goes on with compute_next_hash from its
\* last hash, the other with compute_entity_hash and its last hash as
\* previous_hash; hashB holds the entity's fields
UpdateEntity ==
    /\ hashOut.pc = "chain"
    /\ Len(hashChain.next) < MaxChain
    /\ \E u \in FieldValues("updated_at"), g \in FieldValues("group_id") :
         \E fields \in {[hashB EXCEPT !.updated_at = u, !.group_id = g]} :
           /\ hashChain' =
                [next |-> Append(hashChain.next,
                                 next_hash_of(fields,
                                     Some(hashChain.next[Len(hashChain.next)]))),
                 entity |-> Append(hashChain.entity,
                                   entity_hash_of(
                                     [fields EXCEPT !.previous_hash =
                                        Some(hashChain.entity[Len(hashChain.entity)])]))]
           /\ hashB' = [fields EXCEPT !.previous_hash =
                          Some(hashChain.entity[Len(hashChain.entity)])]
    /\ UNCHANGED <<hashA, hashOut, uidVars, boxVars, rrVars, cfgVars, loadOut,
                   regVars, isoVars>>

HashNext ==
    \/ ChangeField
    \/ ComputeEntityHash
    \/ CreateEntity
    \/ UpdateEntity

-----------------------------------------------------------------------------
(* utils/isodatetime.py, over Python's datetime.                           *)
(*                                                                         *)
(* A datetime is [year, month, day, hour, minute, second, tzinfo]; tzinfo  *)
(* is None for a naive datetime and Some(m) for a fixed offset of m        *)
(* minutes east of UTC.  Microseconds are always 0.                        *)

DigitChars == <<"0", "1", "2", "3", "4", "5", "6", "7", "8", "9">>

\* "%02d" % n and "%04d" % n
Pad2(n) == <<DigitChars[(n \div 10) + 1], DigitChars[(n % 10) + 1]>>
Pad4(n) == Pad2(n \div 100) \o Pad2(n % 100)

\* the UTC offset as isoformat prints it: +HH:MM or -HH:MM
format_offset(m) ==
    LET a == IF m < 0 THEN 0 - m ELSE m
    IN  <<IF m < 0 THEN "-" ELSE "+">> \o Pad2(a \div 60) \o <<":">> \o Pad2(a % 60)

\* datetime.isoformat()
isoformat(dt) ==
    Pad4(dt.year) \o <<"-">> \o Pad2(dt.month) \o <<"-">> \o Pad2(dt.day)
    \o <<"T">> \o Pad2(dt.hour) \o <<":">> \o Pad2(dt.minute) \o <<":">>
    \o Pad2(dt.second)
    \o (IF IsNone(dt.tzinfo) THEN <<>> ELSE format_offset(Val(dt.tzinfo)))

\* str.replace(old, new): every occurrence, left to right
RECURSIVE Replace(_, _, _)
Replace(s, old, new) ==
    IF Len(s) < Len(old) THEN s
    ELSE IF StartsWith(s, old) THEN new \o Replace(DropFirst(s, Len(old)), old, new)
    ELSE <<Head(s)>> \o Replace(Tail(s), old, new)

UtcOffsetText == <<"+", "0", "0", ":", "0", "0">>

\* to_timestamp(dt)
to_timestamp(dt) ==
    LET aware == IF IsNone(dt.tzinfo) THEN [dt EXCEPT !.tzinfo = Some(0)] ELSE dt
    IN  Replace(isoformat(aware), UtcOffsetText, <<"Z">>)

\* calendar arithmetic of the datetime module
is_leap(y) == y % 4 = 0 /\ (y % 100 # 0 \/ y % 400 = 0)

days_in_month(y, m) ==
    IF m = 2 THEN (IF is_leap(y) THEN 29 ELSE 28)
    ELSE IF m \in {4, 6, 9, 11} THEN 30 ELSE 31

days_before_year(year) ==
    LET y == year - 1
    IN  y * 365 + (y \div 4) - (y \div 100) + (y \div 400)

RECURSIVE days_before_month(_, _)
days_before_month(y, m) ==
    IF m = 1 THEN 0 ELSE days_before_month(y, m - 1) + days_in_month(y, m - 1)

ymd2ord(y, m, d) == days_before_year(y) + days_before_month(y, m) + d

\* A point in time is <<day number, second of the day>>.
\* The datetime's own clock, and the UTC instant of an aware datetime:
SecondOfDay(dt) == dt.hour * 3600 + dt.minute * 60 + dt.second

LocalTime(dt) == <<ymd2ord(dt.year, dt.month, dt.day), SecondOfDay(dt)>>

Instant(dt) ==
    LET x == SecondOfDay(dt) - Val(dt.tzinfo) * 60
    IN  <<ymd2ord(dt.year, dt.month, dt.day) + (x \div 86400), x % 86400>>

TimeLt(a, b) == a[1] < b[1] \/ (a[1] = b[1] /\ a[2] < b[2])

NoDatetime ==
    [year |-> 1, month |-> 1, day |-> 1, hour |-> 0, minute |-> 0, second |-> 0,
     tzinfo |-> None]

\* datetime.fromisoformat(s), for the shapes YYYY-MM-DD and
\* YYYY-MM-DD?HH:MM:SS with an optional +HH:MM or -HH:MM (? is any one
\* character); the fields must be in range.  Python takes further shapes
\* (basic format, HH:MM, fractions of a second); no input of the model has
\* one of them.
fromisoformat(s) ==
    LET n      == Len(s)
        num(a, b) == DigitsVal(SubSeq(s, a, b))
        dateOk == /\ n >= 10
                  /\ AllDigits(SubSeq(s, 1, 4)) /\ s[5] = "-"
                  /\ AllDigits(SubSeq(s, 6, 7)) /\ s[8] = "-"
                  /\ AllDigits(SubSeq(s, 9, 10))
                  /\ num(1, 4) >= 1
                  /\ num(6, 7) \in 1..12
                  /\ num(9, 10) \in 1..days_in_month(num(1, 4), num(6, 7))
        timeOk == /\ n >= 19
                  /\ AllDigits(SubSeq(s, 12, 13)) /\ s[14] = ":"
                  /\ AllDigits(SubSeq(s, 15, 16)) /\ s[17] = ":"
                  /\ AllDigits(SubSeq(s, 18, 19))
                  /\ num(12, 13) < 24 /\ num(15, 16) < 60 /\ num(18, 19) < 60
        zoneOk == /\ n = 25
                  /\ s[20] \in {"+", "-"}
                  /\ AllDigits(SubSeq(s, 21, 22)) /\ s[23] = ":"
                  /\ AllDigits(SubSeq(s, 24, 25))
                  /\ num(21, 22) < 24 /\ num(24, 25) < 60
        date   == [NoDatetime EXCEPT !.year = num(1, 4), !.month = num(6, 7),
                                     !.day = num(9, 10)]
        time   == [date EXCEPT !.hour = num(12, 13), !.minute = num(15, 16),
                                !.second = num(18, 19)]
        offset == (IF s[20] = "-" THEN 0 - 1 ELSE 1)
                  * (num(21, 22) * 60 + num(24, 25))
    IN  IF n = 10 /\ dateOk THEN [ok |-> TRUE, dt |-> date]
        ELSE IF n = 19 /\ dateOk /\ timeOk THEN [ok |-> TRUE, dt |-> time]
        ELSE IF n = 25 /\ dateOk /\ timeOk /\ zoneOk
        THEN [ok |-> TRUE, dt |-> [time EXCEPT !.tzinfo = Some(offset)]]
        ELSE [ok |-> FALSE, dt |-> NoDatetime]

\* to_datetime(timestamp)
to_datetime(timestamp) == fromisoformat(Replace(timestamp, <<"Z">>, UtcOffsetText))

\* Inputs of to_timestamp: naive datetimes, UTC ones, and ones east and west
\* of UTC.
DatetimeHours == { 0, 7, 8, 12, 19, 23 }
DatetimeOffsets == { 0, 480, 0 - 300, 330 }

Datetimes ==
    [year : {2025}, month : {1}, day : {1, 31}, hour : DatetimeHours,
     minute : {0, 30}, second : {0}, tzinfo : Optional(DatetimeOffsets)]

IsoIdle ==
    /\ dtIn = NoDatetime
    /\ tsOut = [done |-> FALSE, text |-> <<>>]

IsoInit ==
    /\ dtIn \in Datetimes
    /\ tsOut = [done |-> FALSE, text |-> <<>>]

ToTimestamp ==
    /\ ~tsOut.done
    /\ tsOut' = [done |-> TRUE, text |-> to_timestamp(dtIn)]
    /\ UNCHANGED <<dtIn, winIn, winOut, uidVars, boxVars, rrVars, cfgVars,
                   loadOut, regVars, hashVars>>

-----------------------------------------------------------------------------
(* utils/recurrence.py: is_valid_recurrence_window                         *)

\* from_date < until_date: two naive datetimes compare by their clocks, two
\* aware ones by their instants; a naive and an aware one raise TypeError
datetime_lt(a, b) ==
    IF IsNone(a.tzinfo) # IsNone(b.tzinfo) THEN [error |-> "TypeError", lt |-> FALSE]
    ELSE IF IsNone(a.tzinfo)
    THEN [error |-> "none", lt |-> TimeLt(LocalTime(a), LocalTime(b))]
    ELSE [error |-> "none", lt |-> TimeLt(Instant(a), Instant(b))]

\* `if valid_until:` is false for None and for the empty string.  Every
\* exception inside the try block is raised again as ValueError.
is_valid_recurrence_window(valid_from, valid_until) ==
    LET from_date  == to_datetime(valid_from)
        until_date == to_datetime(Val(valid_until))
        cmp        == datetime_lt(from_date.dt, until_date.dt)
    IN  IF ~from_date.ok THEN Raised("ValueError")
        ELSE IF IsNone(valid_until) \/ Val(valid_until) = <<>>
        THEN Returned("True", <<>>)
        ELSE IF ~until_date.ok \/ cmp.error # "none" THEN Raised("ValueError")
        ELSE Returned(IF cmp.lt THEN "True" ELSE "False", <<>>)

\* Inputs: timestamps glued from a date, a time and a zone, dates alone,
\* and text that is no timestamp.
WinDates == { <<"2", "0", "2", "5", "-", "0", "1", "-", "0", "1">>,
              <<"2", "0", "2", "5", "-", "0", "2", "-", "0", "1">>,
              <<"2", "0", "2", "5", "-", "0", "2", "-", "3", "0">> }
WinTimes == { <<"T", "0", "0", ":", "0", "0", ":", "0", "0">>,
              <<"T", "0", "8", ":", "0", "0", ":", "0", "0">>,
              <<"T", "2", "4", ":", "0", "0", ":", "0", "0">> }
WinZones == { <<>>, <<"Z">>, <<"+", "0", "8", ":", "0", "0">>,
              <<"-", "0", "5", ":", "0", "0">> }

WinTexts ==
    { d \o t \o z : d \in WinDates, t \in WinTimes, z \in WinZones }
    \cup WinDates
    \cup { <<>>, <<"b", "a", "d">> }

WinNoResult == [outcome |-> "none", kind |-> "none"]

WinIdle ==
    /\ winIn = [valid_from |-> <<>>, valid_until |-> None]
    /\ winOut = WinNoResult

WinInit ==
    /\ winIn \in [valid_from : WinTexts, valid_until : Optional(WinTexts)]
    /\ winOut = WinNoResult

IsValidRecurrenceWindow ==
    /\ winOut.outcome = "none"
    /\ \E r \in {is_valid_recurrence_window(winIn.valid_from, winIn.valid_until)} :
         winOut' = [outcome |-> r.outcome, kind |-> r.kind]
    /\ UNCHANGED <<winIn, dtIn, tsOut, uidVars, boxVars, rrVars, cfgVars, loadOut,
                   regVars, hashVars>>

-----------------------------------------------------------------------------
(* utils/config/base.py: load_toml_config called directly, next to a       *)
(* Settings construction over the same path.                               *)

LoadNotRun == [pc |-> "start", error |-> "none", config |-> EmptyToml]

LoadIdle == loadOut = LoadNotRun

\* the environments of these runs: nothing set, a profile, a port, both;
\* with values that convert and values that do not
LoaderEnvironments ==
    UNION { EnvMaps(D) : D \in SUBSET {"MEMOGARDEN_RESOURCE_PROFILE",
                                       "MEMOGARDEN_BIND_PORT"} }

LoaderInit ==
    /\ environ \in LoaderEnvironments
    /\ configFile \in ConfigFiles
    /\ tomllib \in BOOLEAN
    /\ (~tomllib => configFile.toml = EmptyToml)  \* never read without a parser
    /\ settings = EmptyMap
    /\ cfgOut = CfgNotRun
    /\ loadOut = LoadNotRun

\* load_toml_config(config_path), called by the user
LoadTomlConfig ==
    /\ loadOut.pc = "start"
    /\ \E r \in {load_toml_config(configFile, tomllib)} :
         loadOut' = [pc |-> IF r.error = "none" THEN "returned" ELSE "raised",
                     error |-> r.error,
                     config |-> r.config]
    /\ UNCHANGED <<cfgVars, uidVars, boxVars, rrVars, regVars, hashVars, isoVars>>

-----------------------------------------------------------------------------
(* The specifications, one per module.                                     *)

InitUid ==
    /\ UidInit /\ BoxIdle /\ RrIdle /\ CfgIdle /\ LoadIdle
    /\ RegIdle /\ HashIdle /\ IsoIdle /\ WinIdle
NextUid == UidNext
SpecUid == InitUid /\ [][NextUid]_vars

InitBox ==
    /\ BoxInit /\ UidIdle /\ RrIdle /\ CfgIdle /\ LoadIdle
    /\ RegIdle /\ HashIdle /\ IsoIdle /\ WinIdle
NextBox == FormatBox
SpecBox == InitBox /\ [][NextBox]_vars

InitRecur ==
    /\ RrInit /\ UidIdle /\ BoxIdle /\ CfgIdle /\ LoadIdle
    /\ RegIdle /\ HashIdle /\ IsoIdle /\ WinIdle
NextRecur == RrNext
SpecRecur == InitRecur /\ [][NextRecur]_vars

InitSettings ==
    /\ CfgInit /\ UidIdle /\ BoxIdle /\ RrIdle /\ LoadIdle
    /\ RegIdle /\ HashIdle /\ IsoIdle /\ WinIdle
NextSettings == Construct
SpecSettings == InitSettings /\ [][NextSettings]_vars

InitLoader ==
    /\ LoaderInit /\ UidIdle /\ BoxIdle /\ RrIdle
    /\ RegIdle /\ HashIdle /\ IsoIdle /\ WinIdle
NextLoader ==
    \/ LoadTomlConfig
    \/ Construct
SpecLoader == InitLoader /\ [][NextLoader]_vars

InitProfiles ==
    /\ RegInit /\ UidIdle /\ BoxIdle /\ RrIdle /\ CfgIdle /\ LoadIdle
    /\ HashIdle /\ IsoIdle /\ WinIdle
NextProfiles == RegNext
SpecProfiles == InitProfiles /\ [][NextProfiles]_vars

InitHash ==
    /\ HashInit /\ UidIdle /\ BoxIdle /\ RrIdle /\ CfgIdle /\ LoadIdle
    /\ RegIdle /\ IsoIdle /\ WinIdle
NextHash == HashNext
SpecHash == InitHash /\ [][NextHash]_vars

InitIso ==
    /\ IsoInit /\ UidIdle /\ BoxIdle /\ RrIdle /\ CfgIdle /\ LoadIdle
    /\ RegIdle /\ HashIdle /\ WinIdle
NextIso == ToTimestamp
SpecIso == InitIso /\ [][NextIso]_vars

InitWindow ==
    /\ WinInit /\ UidIdle /\ BoxIdle /\ RrIdle /\ CfgIdle /\ LoadIdle
    /\ RegIdle /\ HashIdle /\ IsoIdle
NextWindow == IsValidRecurrenceWindow
SpecWindow == InitWindow /\ [][NextWindow]_vars

-----------------------------------------------------------------------------
(* Properties of Settings construction (SpecSettings).                     *)

ProfileTunables == DOMAIN PROFILES["standard"]
TunableFields == DOMAIN DEFAULTS
ProfileVar == "MEMOGARDEN_RESOURCE_PROFILE"

\* the file exists and load_toml_config fails on it
LoadFails ==
    /\ configFile.state # "absent"
    /\ (configFile.state = "invalid" \/ ~tomllib)

\* some set environment variable writes attribute f
EnvOverrides(f) ==
    \/ \E i \in 1..Len(EnvTable) :
          EnvTable[i][2] = f /\ EnvTable[i][1] \in DOMAIN environ
    \/ ProfileVar \in DOMAIN environ /\ f \in ProfileTunables

\* every set variable converts, and a set profile name is registered
EnvConverts ==
    /\ ProfileVar \in DOMAIN environ => environ[ProfileVar] \in DOMAIN PROFILES
    /\ \A i \in 1..Len(EnvTable) :
          EnvTable[i][1] \in DOMAIN environ
            => Convert(EnvTable[i][3], environ[EnvTable[i][1]]).ok

\* C1: in a constructed Settings, every MEMOGARDEN_* variable with a field
\* that is set to a parseable value decides that field: the attribute
\* equals the converted value, whatever the file, the file's profile or
\* MEMOGARDEN_RESOURCE_PROFILE gave for it.
C1_EnvVarDecidesField ==
    cfgOut.pc = "constructed" =>
        \A i \in 1..Len(EnvTable) :
            LET var == EnvTable[i][1]
                attr == EnvTable[i][2]
                kind == EnvTable[i][3]
            IN  (var \in DOMAIN environ /\ Convert(kind, environ[var]).ok)
                  => /\ attr \in DOMAIN settings
                     /\ settings[attr] = Convert(kind, environ[var]).val

\* C1 witness: MEMOGARDEN_MAX_VIEW_ENTRIES=7 wins over a file that sets both
\* a profile and max_view_entries, and over MEMOGARDEN_RESOURCE_PROFILE.
C1_Witness ==
    /\ cfgOut.pc = "constructed"
    /\ tomllib /\ configFile.state = "ok"
    /\ "max_view_entries" \in DOMAIN configFile.toml["runtime"]
    /\ "resource_profile" \in DOMAIN configFile.toml["runtime"]
    /\ ProfileVar \in DOMAIN environ
    /\ "MEMOGARDEN_MAX_VIEW_ENTRIES" \in DOMAIN environ
    /\ settings["max_view_entries"] = 7

\* what C2 and its amendment say of a completed construction: one warning,
\* and every tunable field at its default unless the environment wrote it
C2_WarnedWithDefaults ==
    /\ cfgOut.warnings = 1
    /\ \A f \in TunableFields :
          ~EnvOverrides(f) => (f \in DOMAIN settings /\ settings[f] = DEFAULTS[f])

\* C2 as stated: whenever the config file exists but loading it fails,
\* construction completes without raising, warns, and leaves every tunable
\* field at its built-in default unless an environment variable overrides it.
C2_TolerantOfLoadFailure ==
    (cfgOut.pc # "start" /\ LoadFails) =>
        /\ cfgOut.pc = "constructed"
        /\ C2_WarnedWithDefaults

\* C2 amended: the load failure is caught and warned about; construction
\* then completes exactly when the environment step does not raise (every
\* set variable converts and a set profile name is registered), otherwise the
\* environment step's ValueError leaves the constructor; a completed
\* construction has the defaults unless the environment overrides them.
C2_TolerantWhenEnvConverts ==
    (cfgOut.pc # "start" /\ LoadFails) =>
        /\ cfgOut.warnings = 1
        /\ (cfgOut.pc = "constructed") = EnvConverts
        /\ cfgOut.pc = "constructed" => C2_WarnedWithDefaults
        /\ cfgOut.pc = "raised" => cfgOut.error = "ValueError"

\* C2 witness: a file that is not valid TOML, an environment variable set,
\* and the construction completed with its warning.
C2_Witness ==
    /\ cfgOut.pc = "constructed"
    /\ configFile.state = "invalid" /\ tomllib
    /\ cfgOut.warnings = 1
    /\ "MEMOGARDEN_LOG_LEVEL" \in DOMAIN environ
    /\ settings["log_level"] = "debug"
    /\ settings["bind_port"] = 8080

\* C3: with no config file and no MEMOGARDEN_* variable set, construction
\* completes with exactly the built-in defaults, which are the "standard"
\* profile's values for the five profile tunables; no path field is set.
C3_BuiltInDefaults ==
    (cfgOut.pc # "start" /\ configFile.state = "absent" /\ DOMAIN environ = {}) =>
        /\ cfgOut.pc = "constructed"
        /\ settings["max_view_entries"] = 1000
        /\ settings["max_search_results"] = 100
        /\ settings["fossilization_threshold"] = 90
        /\ settings["wal_checkpoint_interval"] = 60
        /\ settings["log_level"] = "info"
        /\ settings["bind_address"] = "127.0.0.1"
        /\ settings["bind_port"] = 8080
        /\ settings["encryption"] = "disabled"
        /\ \A f \in ProfileTunables : settings[f] = PROFILES["standard"][f]
        /\ DOMAIN settings \cap {"data_dir", "config_dir", "log_dir"} = {}

\* C3 witness: a completed construction with no file and an empty environment.
C3_Witness ==
    /\ cfgOut.pc = "constructed"
    /\ configFile.state = "absent"
    /\ DOMAIN environ = {}
    /\ settings["bind_port"] = 8080

\* the environment variable of attribute f is not set
NoEnvVarFor(f) ==
    \A i \in 1..Len(EnvTable) :
        EnvTable[i][2] = f => EnvTable[i][1] \notin DOMAIN environ

\* C4: TOML outranks profile defaults: when the file (loaded, its profile
\* registered or absent) sets a profile tunable under [runtime] and the
\* environment variable of that tunable is not set, the constructed Settings
\* holds the file's value for it.
C4_TomlOutranksProfile ==
    (/\ cfgOut.pc = "constructed"
     /\ configFile.state = "ok" /\ tomllib
     /\ "resource_profile" \in DOMAIN configFile.toml["runtime"]
          => configFile.toml["runtime"]["resource_profile"] \in DOMAIN PROFILES)
    => \A f \in ProfileTunables :
          (f \in DOMAIN configFile.toml["runtime"] /\ NoEnvVarFor(f))
            => settings[f] = configFile.toml["runtime"][f]

-----------------------------------------------------------------------------
(* Properties of the recurrence functions (SpecRecur).                     *)

\* t is an occurrence of the rule: on its grid, from dtstart on, and among
\* the first COUNT when the rule has a COUNT
IsOccurrence(rule, t) ==
    /\ t >= rule.dtstart
    /\ (t - rule.dtstart) % rule.step = 0
    /\ IsNone(rule.count) \/ (t - rule.dtstart) \div rule.step < Val(rule.count)

\* seq lists exactly the members of S, in ascending order
IsAscendingListOf(seq, S) ==
    /\ Len(seq) = Cardinality(S)
    /\ \A k \in 1..Len(seq) : seq[k] \in S
    /\ \A k \in 1..(Len(seq) - 1) : seq[k] < seq[k + 1]

\* seq is the first n occurrences of the rule
IsFirstOccurrences(seq, rule, n) ==
    /\ Len(seq) = n
    /\ \A k \in 1..n : seq[k] = rule.dtstart + (k - 1) * rule.step
    /\ \A k \in 1..n : IsOccurrence(rule, seq[k])

\* C5: get_next_occurrence never raises: it returns the first occurrence
\* strictly later than `after`, and None both when there is none and when
\* rrule_str does not parse.
C5_NextOccurrenceNeverRaises ==
    rrOut.op = "get_next_occurrence" =>
        LET after == rrIn.start
            rule  == rrulestr(rrIn.rrule_str, after)
            later == { t \in (after + 1)..(after + rule.step) : IsOccurrence(rule, t) }
        IN  /\ rrOut.outcome = "return"
            /\ rule.error # "none" => rrOut.kind = "None"
            /\ (rule.error = "none" /\ later = {}) => rrOut.kind = "None"
            /\ (rule.error = "none" /\ later # {}) =>
                   /\ rrOut.kind = "datetime"
                   /\ rrOut.value[1] \in later
                   /\ \A t \in later : rrOut.value[1] <= t

\* C6: with `end` and no count, generate_occurrences returns all occurrences
\* t with start <= t < end, ascending: one on `start` is included, one on
\* `end` is not.
C6_EndWindowIncludesStart ==
    (/\ rrOut.op = "generate_occurrences"
     /\ IsNone(rrIn.count) /\ ~IsNone(rrIn.end)
     /\ rrulestr(rrIn.rrule_str, rrIn.start).error = "none")
    => LET rule == rrulestr(rrIn.rrule_str, rrIn.start)
           window == { t \in rrIn.start..(Val(rrIn.end) - 1) : IsOccurrence(rule, t) }
       IN  /\ rrOut.outcome = "return"
           /\ IsAscendingListOf(rrOut.value, window)

\* C7: with a count >= 0 (with or without `end`) generate_occurrences returns
\* exactly min(count, number of occurrences of the rule) occurrences, the
\* first ones in ascending order; with neither count nor end it returns at
\* most the first 100.
C7_CountGivesExactlyCount ==
    (/\ rrOut.op = "generate_occurrences"
     /\ rrulestr(rrIn.rrule_str, rrIn.start).error = "none")
    => LET rule == rrulestr(rrIn.rrule_str, rrIn.start)
           upTo(n) == IF IsNone(rule.count) THEN n ELSE Min2(n, Val(rule.count))
       IN  /\ (~IsNone(rrIn.count) /\ Val(rrIn.count) >= 0) =>
                  /\ rrOut.outcome = "return"
                  /\ IsFirstOccurrences(rrOut.value, rule, upTo(Val(rrIn.count)))
           /\ (IsNone(rrIn.count) /\ IsNone(rrIn.end)) =>
                  /\ rrOut.outcome = "return"
                  /\ Len(rrOut.value) <= 100
                  /\ IsFirstOccurrences(rrOut.value, rule, Len(rrOut.value))

-----------------------------------------------------------------------------
(* Properties of the box formatter (SpecBox).                              *)

\* C8: every row of the box (top border, title row, divider, body rows,
\* bottom border) has the display width W = max(min_width, widest line + 4);
\* for "Test", ["a"] and the default minimum width that is 60 on every row.
C8_RowsShareWidth ==
    boxOut.done =>
        /\ Len(boxOut.rows) = Len(boxIn.body_lines) + 4
        /\ \A r \in 1..Len(boxOut.rows) :
              display_width(boxOut.rows[r])
                = Max2(boxIn.min_width,
                       MaxWidth(<<boxIn.title>> \o boxIn.body_lines) + 4)
        /\ (/\ boxIn.title = <<"T", "e", "s", "t">>
            /\ boxIn.body_lines = << <<"a">> >>
            /\ boxIn.min_width = 60)
           => \A r \in 1..Len(boxOut.rows) : display_width(boxOut.rows[r]) = 60

-----------------------------------------------------------------------------
(* Properties of the UUID prefix functions (SpecUid).                      *)

\* C9: for every bare UUID u: add_core(add_core(u)) = add_core(u),
\* add_soil(add_core(u)) = add_core(u), add_core(add_soil(u)) = add_soil(u),
\* strip(add_core(u)) = u and strip(add_soil(u)) = u.
C9_PrefixIdempotence ==
    LET u == uidBare
    IN  /\ ~has_prefix(u)
        /\ add_core_prefix(add_core_prefix(u)) = add_core_prefix(u)
        /\ add_soil_prefix(add_core_prefix(u)) = add_core_prefix(u)
        /\ add_core_prefix(add_soil_prefix(u)) = add_soil_prefix(u)
        /\ strip_prefix(add_core_prefix(u)) = u
        /\ strip_prefix(add_soil_prefix(u)) = u
        /\ add_core_prefix(u) = UUID_PREFIX_CORE \o u
        /\ add_soil_prefix(u) = UUID_PREFIX_SOIL \o u

\* C9 witness: add_soil_prefix has been applied to the core-prefixed form of
\* a bare UUID that itself contains a prefix further in, and left it alone.
C9_Witness ==
    /\ uidLast = "add_soil_prefix"
    /\ uidValue = UUID_PREFIX_CORE \o uidBare
    /\ Len(uidBare) > Len(UUID_PREFIX_SOIL)
    /\ \E k \in 2..Len(uidBare) : StartsWith(DropFirst(uidBare, k - 1), UUID_PREFIX_SOIL)

\* C10: from a bare UUID u, after any sequence of add_core_prefix,
\* add_soil_prefix and strip_prefix the value is u, core_u or soil_u; it never
\* carries two prefixes, has_core_prefix and has_soil_prefix are never both
\* true, and strip_prefix of it is u.
C10_AtMostOnePrefix ==
    /\ uidValue \in { uidBare, UUID_PREFIX_CORE \o uidBare, UUID_PREFIX_SOIL \o uidBare }
    /\ ~(has_core_prefix(uidValue) /\ has_soil_prefix(uidValue))
    /\ ~has_prefix(strip_prefix(uidValue))
    /\ strip_prefix(uidValue) = uidBare

\* C10 witness: add_core_prefix has been applied to a soil-prefixed value
\* (reached by add_soil_prefix) and the value still carries soil_ alone.
C10_Witness ==
    /\ uidLast = "add_core_prefix"
    /\ uidValue = UUID_PREFIX_SOIL \o uidBare
    /\ uidBare # <<>>

-----------------------------------------------------------------------------
(* Properties of the profile registry (SpecProfiles).                      *)

\* C11: the registry is never changed by its users: after any sequence of
\* get_profile calls, caller changes to the mappings returned, and Settings
\* constructions, get_profile("embedded") returns exactly {100, 20, 0.80,
\* 300, "warning"} and get_profile("standard") exactly {1000, 100, 0.90, 60,
\* "info"}, and the registry's own mappings hold these values.
C11_RegistryNeverChanged ==
    LET embedded == [max_view_entries |-> 100,
                     max_search_results |-> 20,
                     fossilization_threshold |-> 80,
                     wal_checkpoint_interval |-> 300,
                     log_level |-> "warning"]
        standard == [max_view_entries |-> 1000,
                     max_search_results |-> 100,
                     fossilization_threshold |-> 90,
                     wal_checkpoint_interval |-> 60,
                     log_level |-> "info"]
        e == ResourceProfile_get_profile(regHeap, "embedded")
        s == ResourceProfile_get_profile(regHeap, "standard")
    IN  /\ e.error = "none" /\ e.heap[e.ref] = embedded
        /\ s.error = "none" /\ s.heap[s.ref] = standard
        /\ regHeap[ProfileRef["embedded"]] = embedded
        /\ regHeap[ProfileRef["standard"]] = standard
        /\ (regOut.op = "Settings" /\ regOut.error = "none")
             => regOut.merged \in {embedded, standard}

\* C11 witness: a caller holds two mappings it was given and has changed
\* both (a value overwritten, a key deleted), and a Settings construction
\* has merged a profile since.
C11_Witness ==
    /\ regOut.op = "Settings" /\ regOut.error = "none"
    /\ regOut.merged["max_view_entries"] = 100
    /\ \E a \in regHeld, b \in regHeld :
         /\ a # b
         /\ regHeap[a]["max_view_entries"] = 0
         /\ "log_level" \notin DOMAIN regHeap[b]

-----------------------------------------------------------------------------
(* Properties of the hash chain (SpecHash).                                *)

\* hashes to go on from: no text, a short one, and every digest of the run
HashSamples ==
    { <<>>, <<"a", "0">> }
    \cup { hashChain.next[i] : i \in 1..Len(hashChain.next) }
    \cup { hashOut.digA, hashOut.digB }

\* C12: for all field values and every hash H, compute_next_hash(...,
\* current_hash=H, ...) equals compute_entity_hash of the same fields with
\* previous_hash=H; so a chain built by compute_next_hash steps equals the
\* chain built by compute_entity_hash fed with each predecessor's digest.
C12_NextHashIsEntityHash ==
    /\ \A H \in HashSamples : \A args \in {hashA, hashB} :
          next_hash_of(args, Some(H))
            = entity_hash_of([args EXCEPT !.previous_hash = Some(H)])
    /\ hashChain.next = hashChain.entity

\* C12 witness: an entity with a group was created and updated, and the
\* hash of the update differs from the hash of the creation.
C12_Witness ==
    /\ Len(hashChain.next) >= 2
    /\ hashChain.next[2] # hashChain.next[1]
    /\ hashB.group_id = Some(<<"g">>)
    /\ hashB.previous_hash = Some(hashChain.next[1])

\* what the hash input shows of each argument
Rendered(args) ==
    [f \in HashFields |->
        IF f \in OptionalHashFields THEN OrEmpty(args[f]) ELSE args[f]]

\* no argument holds a separator
NoPipe(args) ==
    \A f \in HashFields :
        \A i \in 1..Len(Rendered(args)[f]) : Rendered(args)[f][i] # "|"

\* C13 as stated: equal arguments give equal digests, and two calls whose
\* arguments differ in any field, previous_hash and an optional field going
\* between absent and a present value included, give different digests: the
\* hash input is different for different argument tuples.
C13_AnyChangeChangesDigest ==
    hashOut.pc = "hashed" =>
        /\ hashA = hashB => hashOut.digA = hashOut.digB
        /\ hashA # hashB => hashOut.digA # hashOut.digB

\* C13 amended: equal arguments give equal digests; two calls that differ in
\* exactly one argument give different digests unless that argument is an
\* optional one that is absent in one call and the empty string in the
\* other (both are rendered as nothing); and calls whose arguments hold no
\* "|" give different digests whenever some argument is rendered differently.
C13_RenderedChangeChangesDigest ==
    hashOut.pc = "hashed" =>
        LET D == { f \in HashFields : hashA[f] # hashB[f] }
        IN  /\ Rendered(hashA) = Rendered(hashB) => hashOut.digA = hashOut.digB
            /\ (Cardinality(D) = 1 /\ Rendered(hashA) # Rendered(hashB))
                 => hashOut.digA # hashOut.digB
            /\ (NoPipe(hashA) /\ NoPipe(hashB) /\ Rendered(hashA) # Rendered(hashB))
                 => hashOut.digA # hashOut.digB

\* C13 witness: the two calls differ in superseded_at alone, absent in one
\* and given in the other, and their digests differ.
C13_Witness ==
    /\ hashOut.pc = "hashed"
    /\ { f \in HashFields : hashA[f] # hashB[f] } = {"superseded_at"}
    /\ IsNone(hashA.superseded_at) /\ hashB.superseded_at = Some(<<"g">>)
    /\ hashOut.digA # hashOut.digB

-----------------------------------------------------------------------------
(* Properties of to_timestamp (SpecIso).                                   *)

\* C14: for every datetime dt (naive, UTC, or with another UTC offset)
\* to_timestamp(dt) is an ISO 8601 text in UTC: it ends with "Z", holds no
\* numeric offset, and denotes the instant of dt at offset zero; a naive dt
\* keeps its clock fields and only gains the zone.
C14_TimestampIsUtcWithZ ==
    tsOut.done =>
        LET text   == tsOut.text
            parsed == to_datetime(text)
            aware  == IF IsNone(dtIn.tzinfo) THEN [dtIn EXCEPT !.tzinfo = Some(0)]
                      ELSE dtIn
        IN  /\ text # <<>> /\ text[Len(text)] = "Z"
            /\ \A i \in 11..Len(text) : text[i] \notin {"+", "-"}
            /\ parsed.ok
            /\ parsed.dt.tzinfo = Some(0)
            /\ Instant(parsed.dt) = Instant(aware)
            /\ IsNone(dtIn.tzinfo) => SubSeq(text, 1, 19) = isoformat(dtIn)

-----------------------------------------------------------------------------
(* Properties of is_valid_recurrence_window (SpecWindow).                  *)

\* C15: is_valid_recurrence_window returns true when valid_until is absent,
\* and otherwise exactly (parsed valid_from < parsed valid_until); it raises
\* ValueError whenever a string it was given does not parse, an unparseable
\* valid_from with valid_until absent included, and returns no boolean then.
\* (Where `<` itself is undefined, between a naive and an aware datetime,
\* nothing is required.)
C15_WindowComparesOrRaises ==
    winOut.outcome # "none" =>
        LET from_ok  == to_datetime(winIn.valid_from).ok
            absent   == IsNone(winIn.valid_until)
            until_ok == to_datetime(Val(winIn.valid_until)).ok
            cmp      == datetime_lt(to_datetime(winIn.valid_from).dt,
                                    to_datetime(Val(winIn.valid_until)).dt)
        IN  /\ (~from_ok \/ (~absent /\ ~until_ok))
                 => (winOut.outcome = "raise" /\ winOut.kind = "ValueError")
            /\ (from_ok /\ absent)
                 => (winOut.outcome = "return" /\ winOut.kind = "True")
            /\ (from_ok /\ ~absent /\ until_ok /\ cmp.error = "none")
                 => /\ winOut.outcome = "return"
                    /\ winOut.kind = (IF cmp.lt THEN "True" ELSE "False")

-----------------------------------------------------------------------------
(* Properties of the loader next to Settings (SpecLoader).                 *)

\* C16: a direct call of load_toml_config raises ImportError when no TOML
\* parser is available, else FileNotFoundError when the path does not
\* exist, else ValueError when the file is not valid TOML, and returns the
\* parsed mapping only otherwise; Settings construction over the same path
\* lets none of these out: it raises only what the environment step raises,
\* and completes whenever the environment converts.
C16_LoaderStrictSettingsTolerant ==
    /\ loadOut.pc # "start" =>
         /\ ~tomllib
              => (loadOut.pc = "raised" /\ loadOut.error = "ImportError")
         /\ (tomllib /\ configFile.state = "absent")
              => (loadOut.pc = "raised" /\ loadOut.error = "FileNotFoundError")
         /\ (tomllib /\ configFile.state = "invalid")
              => (loadOut.pc = "raised" /\ loadOut.error = "ValueError")
         /\ (tomllib /\ configFile.state = "ok")
              => (loadOut.pc = "returned" /\ loadOut.config = configFile.toml)
    /\ cfgOut.pc # "start" =>
         /\ cfgOut.error \notin {"ImportError", "FileNotFoundError"}
         /\ EnvConverts => cfgOut.pc = "constructed"
         /\ cfgOut.pc = "raised" => (cfgOut.error = "ValueError" /\ ~EnvConverts)
         /\ (cfgOut.pc = "constructed" /\ LoadFails) => cfgOut.warnings = 1

\* C16 witness: over one path with a file that is not valid TOML, the direct
\* call has raised ValueError and the construction has completed, warning.
C16_Witness ==
    /\ loadOut.pc = "raised" /\ loadOut.error = "ValueError"
    /\ configFile.state = "invalid"
    /\ cfgOut.pc = "constructed" /\ cfgOut.warnings = 1

-----------------------------------------------------------------------------
(* Further properties of Settings construction (SpecSettings).             *)

\* the file was loaded and names a profile that is not registered
TomlNamesUnknownProfile ==
    /\ configFile.state = "ok" /\ tomllib
    /\ "resource_profile" \in DOMAIN configFile.toml["runtime"]
    /\ configFile.toml["runtime"]["resource_profile"] \notin DOMAIN PROFILES

\* the profile whose tunables were merged last: the environment's, else the
\* file's (an applied file without a name merges "standard"), else none, the
\* built-in defaults and the built-in name being those of "standard"
LastMergedProfile ==
    IF ProfileVar \in DOMAIN environ THEN environ[ProfileVar]
    ELSE IF /\ configFile.state = "ok" /\ tomllib
            /\ "resource_profile" \in DOMAIN configFile.toml["runtime"]
            /\ ~TomlNamesUnknownProfile
    THEN configFile.toml["runtime"]["resource_profile"]
    ELSE "standard"

\* C17: after every Settings construction that completes, the recorded
\* active profile name _resource_profile is a registered profile and names
\* the profile whose tunables were merged last, for every combination of the
\* file's runtime.resource_profile and MEMOGARDEN_RESOURCE_PROFILE.
C17_ActiveProfileIsRegistered ==
    cfgOut.pc = "constructed" =>
        /\ settings["_resource_profile"] \in DOMAIN PROFILES
        /\ settings["_resource_profile"] = LastMergedProfile

PathFields == { "data_dir", "config_dir", "log_dir" }

\* C18: applying a TOML config is all-or-nothing for the public fields: if
\* the file parses but names an unknown profile, one warning is emitted and
\* no field is taken from the file: every tunable, bind_address, bind_port
\* and encryption keeps its default and every path field stays unset unless
\* the environment writes it, whatever the file's sections give; with no
\* environment variable set the construction completes.
C18_UnknownProfileAppliesNothing ==
    (cfgOut.pc # "start" /\ TomlNamesUnknownProfile) =>
        /\ cfgOut.warnings = 1
        /\ DOMAIN environ = {} => cfgOut.pc = "constructed"
        /\ cfgOut.pc = "constructed" =>
             /\ \A f \in TunableFields :
                   ~EnvOverrides(f) => settings[f] = DEFAULTS[f]
             /\ \A f \in PathFields :
                   NoEnvVarFor(f) => f \notin DOMAIN settings
             /\ settings["default_currency"] = "SGD"

\* C18 witness: a file naming an unknown profile and a bind_port, no
\* environment variable, and the construction completed with the default port.
C18_Witness ==
    /\ cfgOut.pc = "constructed"
    /\ TomlNamesUnknownProfile
    /\ DOMAIN environ = {}
    /\ "bind_port" \in DOMAIN configFile.toml["network"]
    /\ configFile.toml["network"]["bind_port"] # DEFAULTS["bind_port"]
    /\ settings["bind_port"] = DEFAULTS["bind_port"]
    /\ cfgOut.warnings = 1

=============================================================================
